---- MODULE Spec2Model ----
(***************************************************************************)
(* Model of task1.py: a console contact book.  Field validators (Phone,    *)
(* Birthday), Record (phone list and birthday of one contact), AddressBook *)
(* (an insertion-ordered mapping name -> Record with the upcoming-birthday *)
(* query) and the command handlers wrapped by input_error.                 *)
(*                                                                         *)
(* A Python str is a sequence of characters.  A character is a one-letter  *)
(* TLA+ string, or "U+XXXX" for a character outside ASCII.                 *)
(***************************************************************************)
EXTENDS Integers, Sequences, FiniteSets

VARIABLES book, prev, call, ret

vars == <<book, prev, call, ret>>

-----------------------------------------------------------------------------
(* Characters and strings *)

AsciiDigits == <<"0", "1", "2", "3", "4", "5", "6", "7", "8", "9">>

IsAsciiDigit(c) == \E i \in 1..10 : AsciiDigits[i] = c

\* Characters of Unicode category Nd outside ASCII that the model knows:
\* ARABIC-INDIC DIGIT TWO and FULLWIDTH DIGIT ONE.
\* re's \d and int() accept exactly the category Nd.
IsDecimalChar(c) == IsAsciiDigit(c) \/ c \in {"U+0662", "U+FF11"}

\* str.isdigit() of one character: category Nd, or a digit that is not a
\* decimal (SUPERSCRIPT TWO).
IsDigitChar(c) == IsDecimalChar(c) \/ c = "U+00B2"

\* The value int() gives a decimal character.
DigitValue(c) ==
    IF c = "U+0662" THEN 2
    ELSE IF c = "U+FF11" THEN 1
    ELSE (CHOOSE i \in 1..10 : AsciiDigits[i] = c) - 1

\* str.isdigit(): every character is a digit and there is at least one.
isdigit(s) == Len(s) > 0 /\ \A i \in 1..Len(s) : IsDigitChar(s[i])

\* None, as the value of an attribute that otherwise holds a str.
None == <<"<None>">>

-----------------------------------------------------------------------------
(* Exceptions: the type that was raised ("" when none was) and its message *)

NoExc == [type |-> "", msg |-> ""]

ValueError(m) == [type |-> "ValueError", msg |-> m]

KeyError == [type |-> "KeyError", msg |-> ""]

-----------------------------------------------------------------------------
(* class Phone *)

PhoneLen == 10

\* Phone.__init__: the exception raised, and the value stored when none is.
Phone_init(value) ==
    IF ~isdigit(value) \/ Len(value) # PhoneLen
    THEN [exc |-> ValueError("phone must be exactly 10 digits"), value |-> None]
    ELSE [exc |-> NoExc, value |-> value]

-----------------------------------------------------------------------------
(* datetime.date: a record [year, month, day] *)

IsLeap(y) == y % 4 = 0 /\ (y % 100 # 0 \/ y % 400 = 0)

DaysInMonth(y, m) ==
    IF m = 2 THEN (IF IsLeap(y) THEN 29 ELSE 28)
    ELSE IF m \in {4, 6, 9, 11} THEN 30
    ELSE 31

RECURSIVE DaysBeforeMonth(_, _)
DaysBeforeMonth(y, m) ==
    IF m = 1 THEN 0 ELSE DaysBeforeMonth(y, m - 1) + DaysInMonth(y, m - 1)

DaysBeforeYear(y) ==
    (y - 1) * 365 + (y - 1) \div 4 - (y - 1) \div 100 + (y - 1) \div 400

\* date.toordinal(): 1 for 01.01.0001.
toordinal(d) == DaysBeforeYear(d.year) + DaysBeforeMonth(d.year, d.month) + d.day

\* date.weekday(): 0 is Monday, 6 is Sunday.
weekday(d) == (toordinal(d) + 6) % 7

\* A (year, month, day) the date constructor accepts.
IsDate(y, m, d) ==
    /\ y \in 1..9999
    /\ m \in 1..12
    /\ d \in 1..DaysInMonth(y, m)

\* date.replace(year=y): ValueError when the result is no calendar date.
replace_year(d, y) ==
    IF IsDate(y, d.month, d.day)
    THEN [exc |-> NoExc, date |-> [d EXCEPT !.year = y]]
    ELSE [exc |-> ValueError("day is out of range for month"), date |-> d]

\* date + timedelta(days=1)
plus_one_day(d) ==
    IF d.day < DaysInMonth(d.year, d.month) THEN [d EXCEPT !.day = d.day + 1]
    ELSE IF d.month < 12 THEN [d EXCEPT !.month = d.month + 1, !.day = 1]
    ELSE [year |-> d.year + 1, month |-> 1, day |-> 1]

\* Zero-padded decimal text of n in w characters (n < 10^w).
RECURSIVE Pad(_, _)
Pad(n, w) ==
    IF w = 0 THEN <<>> ELSE Append(Pad(n \div 10, w - 1), AsciiDigits[(n % 10) + 1])

\* Decimal text of n >= 0 without padding.
RECURSIVE Decimal(_)
Decimal(n) ==
    IF n < 10 THEN <<AsciiDigits[n + 1]>>
    ELSE Append(Decimal(n \div 10), AsciiDigits[(n % 10) + 1])

\* date.strftime("%d.%m.%Y"): day and month in two digits; the C library's
\* %Y does not pad a year below 1000.
strftime(d) ==
    Pad(d.day, 2) \o <<".">> \o Pad(d.month, 2) \o <<".">> \o Decimal(d.year)

\* int() of a matched token: surrounding whitespace is stripped, every other
\* character is a decimal digit.
RECURSIVE int(_)
int(t) ==
    IF t = <<>> THEN 0
    ELSE IF t[1] = " " THEN int(Tail(t))
    ELSE int(SubSeq(t, 1, Len(t) - 1)) * 10 + DigitValue(t[Len(t)])

\* The regular expression _strptime builds for %d:
\*   3[0-1]|[1-2]\d|0[1-9]|[1-9]| [1-9]
IsNonZeroAscii(c) == IsAsciiDigit(c) /\ c # "0"

re_d(t) ==
    \/ Len(t) = 2 /\ t[1] = "3" /\ t[2] \in {"0", "1"}
    \/ Len(t) = 2 /\ t[1] \in {"1", "2"} /\ IsDecimalChar(t[2])
    \/ Len(t) = 2 /\ t[1] = "0" /\ IsNonZeroAscii(t[2])
    \/ Len(t) = 1 /\ IsNonZeroAscii(t[1])
    \/ Len(t) = 2 /\ t[1] = " " /\ IsNonZeroAscii(t[2])

\* ... for %m:  1[0-2]|0[1-9]|[1-9]
re_m(t) ==
    \/ Len(t) = 2 /\ t[1] = "1" /\ t[2] \in {"0", "1", "2"}
    \/ Len(t) = 2 /\ t[1] = "0" /\ IsNonZeroAscii(t[2])
    \/ Len(t) = 1 /\ IsNonZeroAscii(t[1])

\* ... for %Y:  \d\d\d\d
re_Y(t) == Len(t) = 4 /\ \A i \in 1..4 : IsDecimalChar(t[i])

\* The matches of (%d)\.(%m)\.(%Y) at the start of s, each as the lengths of
\* its day and month tokens.  The match need not reach the end of s.
Matches(s) ==
    {x \in {1, 2} \X {1, 2} :
        /\ Len(s) >= x[1] + x[2] + 6
        /\ re_d(SubSeq(s, 1, x[1]))
        /\ s[x[1] + 1] = "."
        /\ re_m(SubSeq(s, x[1] + 2, x[1] + x[2] + 1))
        /\ s[x[1] + x[2] + 2] = "."
        /\ re_Y(SubSeq(s, x[1] + x[2] + 3, x[1] + x[2] + 6))}

\* datetime.strptime(s, "%d.%m.%Y").date().  In both alternations the
\* two-character alternatives come before the one-character ones, so re.match
\* returns the match with the longest day token, then the longest month token.
\* ValueError when nothing matches, when text remains after the match, or
\* when the numbers are no calendar date.
strptime(s) ==
    LET bad == [exc |-> ValueError("does not match format"),
                date |-> [year |-> 0, month |-> 0, day |-> 0]]
    IN IF Matches(s) = {} THEN bad
       ELSE LET x == CHOOSE a \in Matches(s) :
                        \A b \in Matches(s) :
                            a[1] > b[1] \/ (a[1] = b[1] /\ a[2] >= b[2])
                ld == x[1]
                lm == x[2]
                d == int(SubSeq(s, 1, ld))
                m == int(SubSeq(s, ld + 2, ld + lm + 1))
                y == int(SubSeq(s, ld + lm + 3, ld + lm + 6))
            IN IF Len(s) # ld + lm + 6 THEN bad
               ELSE IF ~IsDate(y, m, d) THEN bad
               ELSE [exc |-> NoExc, date |-> [year |-> y, month |-> m, day |-> d]]

-----------------------------------------------------------------------------
(* class Birthday *)

\* Birthday.__init__: the text is parsed only to check it, and the text
\* itself is what is stored.
Birthday_init(value) ==
    IF strptime(value).exc # NoExc
    THEN [exc |-> ValueError("date must be DD.MM.YYYY"), value |-> None]
    ELSE [exc |-> NoExc, value |-> value]

-----------------------------------------------------------------------------
(* class Record: [name, phones, birthday].  phones holds the value of each *)
(* Phone object of the list, in the order of the list.                     *)

\* An argument of find_phone and remove_phone: a str, or a Phone object.
Str(s) == [type |-> "str", value |-> s]

PhoneObj(s) == [type |-> "Phone", value |-> s]

\* Record.__init__
Record_init(name) == [name |-> name, phones |-> <<>>, birthday |-> None]

RemoveAt(seq, i) == SubSeq(seq, 1, i - 1) \o SubSeq(seq, i + 1, Len(seq))

\* Record.add_phone: validates, then appends.
add_phone(rec, phone) ==
    LET phone_obj == Phone_init(phone)
    IN IF phone_obj.exc # NoExc
       THEN [exc |-> phone_obj.exc, rec |-> rec]
       ELSE [exc |-> NoExc,
             rec |-> [rec EXCEPT !.phones = Append(@, phone_obj.value)]]

\* Record.find_phone: the place in the list of the first Phone p with
\* p.value == phone, 0 for None.  p.value is a str and Field defines no
\* __eq__, so p.value == phone is False whenever phone is not a str.
find_phone(rec, phone) ==
    LET hits == {i \in 1..Len(rec.phones) :
                    phone.type = "str" /\ rec.phones[i] = phone.value}
    IN IF hits = {} THEN 0 ELSE CHOOSE i \in hits : \A j \in hits : i <= j

\* Record.remove_phone: list.remove of the object found, which is the first
\* element of the list identical to it.
remove_phone(rec, phone) ==
    LET phone_obj == find_phone(rec, phone)
    IN IF phone_obj # 0
       THEN [rec EXCEPT !.phones = RemoveAt(@, phone_obj)]
       ELSE rec

\* Record.edit_phone: remove_phone is handed the Phone object found, not
\* its value.
edit_phone(rec, old_phone, new_phone) ==
    LET phone_obj == find_phone(rec, Str(old_phone))
    IN IF phone_obj # 0
       THEN LET added == add_phone(rec, new_phone)
            IN IF added.exc # NoExc
               THEN added
               ELSE [exc |-> NoExc,
                     rec |-> remove_phone(added.rec,
                                          PhoneObj(rec.phones[phone_obj]))]
       ELSE [exc |-> ValueError("old phone not found"), rec |-> rec]

\* Record.add_birthday
add_birthday(rec, birthday) ==
    LET b == Birthday_init(birthday)
    IN IF b.exc # NoExc
       THEN [exc |-> b.exc, rec |-> rec]
       ELSE [exc |-> NoExc, rec |-> [rec EXCEPT !.birthday = b.value]]

-----------------------------------------------------------------------------
(* class AddressBook(UserDict): the records in the order of the dict, which *)
(* is the order in which their keys were inserted.                          *)

\* self.data.get(name): the place of the record with that key, 0 for None.
find(data, name) ==
    IF \E i \in 1..Len(data) : data[i].name = name
    THEN CHOOSE i \in 1..Len(data) : data[i].name = name
    ELSE 0

\* add_record that merges into an existing entry instead of replacing it.
add_record_merge(data, record) ==
    IF find(data, record.name) # 0
    THEN [data EXCEPT ![find(data, record.name)].phones = @ \o record.phones]
    ELSE Append(data, record)

\* AddressBook.add_record: self.data[record.name.value] = record.  An
\* existing key keeps its place in the dict.
add_record(data, record) ==
    IF find(data, record.name) # 0
    THEN [data EXCEPT ![find(data, record.name)] = record]
    ELSE Append(data, record)

\* AddressBook.delete
delete(data, name) ==
    IF find(data, name) # 0 THEN RemoveAt(data, find(data, name)) ELSE data

\* The move off the weekend with an if in place of the while.
shift_weekend_once(d) == IF weekday(d) >= 5 THEN plus_one_day(d) ELSE d

\* The loop of get_upcoming_birthdays that moves a date off the weekend:
\*   while d.weekday() >= 5: d += timedelta(days=1)
RECURSIVE shift_weekend(_)
shift_weekend(d) ==
    IF weekday(d) >= 5 THEN shift_weekend(plus_one_day(d)) ELSE d

\* The birthday's date in today's year, or in the next year when that date
\* is before today.  Either replace() may raise.
bday_this_year(bday, today) ==
    LET this == replace_year(bday, today.year)
    IN IF this.exc # NoExc THEN this
       ELSE IF toordinal(this.date) < toordinal(today)
            THEN replace_year(this.date, today.year + 1)
            ELSE this

\* The window test made on the date after it is moved off the weekend.
in_window_shifted(candidate, today, days) ==
    LET diff == toordinal(shift_weekend(candidate)) - toordinal(today)
    IN 0 <= diff /\ diff <= days

\* The test that decides whether a record is reported: on the date before
\* it is moved off the weekend.
in_window(candidate, today, days) ==
    LET diff == toordinal(candidate) - toordinal(today)
    IN 0 <= diff /\ diff <= days

\* One pass of the loop over self.data.values(): the entries appended for
\* this record (none or one), or the exception raised.
upcoming_of(record, days, today) ==
    IF record.birthday = None THEN [exc |-> NoExc, value |-> <<>>]
    ELSE LET bday == strptime(record.birthday).date
             cand == bday_this_year(bday, today)
         IN IF cand.exc # NoExc THEN [exc |-> cand.exc, value |-> <<>>]
            ELSE IF in_window(cand.date, today, days)
                 THEN [exc |-> NoExc,
                       value |-> <<[name |-> record.name,
                                    birthday |-> strftime(shift_weekend(cand.date))]>>]
                 ELSE [exc |-> NoExc, value |-> <<>>]

\* AddressBook.get_upcoming_birthdays(days), with today the date
\* datetime.today() gives: the list returned, or the exception raised (and
\* then nothing is returned).
RECURSIVE get_upcoming_birthdays(_, _, _)
get_upcoming_birthdays(data, days, today) ==
    IF data = <<>> THEN [exc |-> NoExc, value |-> <<>>]
    ELSE LET first == upcoming_of(Head(data), days, today)
             rest == get_upcoming_birthdays(Tail(data), days, today)
         IN IF first.exc # NoExc THEN first
            ELSE IF rest.exc # NoExc THEN rest
            ELSE [exc |-> NoExc, value |-> first.value \o rest.value]

-----------------------------------------------------------------------------
(* The command handlers.  A handler gives [exc, text, book]: the exception *)
(* it raises, the text it returns when it raises none, and the address     *)
(* book it leaves behind.                                                  *)

NotFoundText == "contact not found"

Raise(e, data) == [exc |-> e, text |-> "", book |-> data]

Return(t, data) == [exc |-> NoExc, text |-> t, book |-> data]

\* input_error: the exception caught becomes the text returned.
input_error(r) ==
    IF r.exc.type = "KeyError" THEN [r EXCEPT !.text = NotFoundText]
    ELSE IF r.exc.type = "ValueError" THEN [r EXCEPT !.text = r.exc.msg]
    ELSE IF r.exc.type = "IndexError" THEN [r EXCEPT !.text = "enter a command and arguments"]
    ELSE r

\* add_contact
add_contact(args, data) ==
    IF Len(args) # 2 THEN Raise(ValueError("cannot unpack"), data)
    ELSE LET name == args[1]
             phone == args[2]
             record == find(data, name)
         IN IF record = 0
            THEN LET added == add_phone(Record_init(name), phone)
                 IN IF added.exc # NoExc THEN Raise(added.exc, data)
                    ELSE Return("contact added", add_record(data, added.rec))
            ELSE LET cleared == [data EXCEPT ![record].phones = <<>>]
                     added == add_phone(cleared[record], phone)
                 IN IF added.exc # NoExc THEN Raise(added.exc, cleared)
                    ELSE Return("phone updated",
                                [cleared EXCEPT ![record] = added.rec])

\* change_contact
change_contact(args, data) ==
    IF Len(args) # 3 THEN Raise(ValueError("cannot unpack"), data)
    ELSE LET name == args[1]
             record == find(data, name)
         IN IF record # 0
            THEN LET edited == edit_phone(data[record], args[2], args[3])
                 IN IF edited.exc # NoExc
                    THEN Raise(edited.exc, [data EXCEPT ![record] = edited.rec])
                    ELSE Return("phone replaced",
                                [data EXCEPT ![record] = edited.rec])
            ELSE Raise(KeyError, data)

\* delete_contact
delete_contact(args, data) ==
    IF Len(args) = 0 THEN Raise([type |-> "IndexError", msg |-> ""], data)
    ELSE IF find(data, args[1]) # 0
         THEN Return("contact deleted", delete(data, args[1]))
         ELSE Raise(KeyError, data)

\* add_birthday (the command handler)
cmd_add_birthday(args, data) ==
    IF Len(args) # 2 THEN Raise(ValueError("cannot unpack"), data)
    ELSE LET record == find(data, args[1])
         IN IF record = 0 THEN Return(NotFoundText, data)
            ELSE LET set == add_birthday(data[record], args[2])
                 IN IF set.exc # NoExc
                    THEN Raise(set.exc, [data EXCEPT ![record] = set.rec])
                    ELSE Return("birthday added",
                                [data EXCEPT ![record] = set.rec])

-----------------------------------------------------------------------------
(* The inputs of the model.  Phones are edited in the record of A; the    *)
(* record of B is added, given a birthday, overwritten and deleted.       *)

\* The longest phone list the model lets a record grow to.
MaxPhones == 2

NameA == <<"A">>

NameB == <<"B">>

Names == {NameA, NameB}

Phone1 == <<"1", "2", "3", "4", "5", "6", "7", "8", "9", "0">>

Phone2 == <<"0", "9", "8", "7", "6", "5", "4", "3", "2", "1">>

\* Too short to be a phone number.
ShortPhone == <<"1", "2", "3">>

ValidPhones == {Phone1, Phone2}

PhoneTokens == ValidPhones \cup {ShortPhone}

\* Ten characters, the last of them ARABIC-INDIC DIGIT TWO: no phone number
\* of ten digits 0..9, and a string of which str.isdigit() is true.
ArabicPhone == <<"0", "5", "5", "5", "5", "5", "5", "5", "5", "U+0662">>

\* The new number of an edit.
NewPhoneTokens == PhoneTokens \cup {ArabicPhone}

\* 03.01.1990
Birthday1 == <<"0", "3", ".", "0", "1", ".", "1", "9", "9", "0">>

\* 31.02.2024: no calendar date
BadBirthday == <<"3", "1", ".", "0", "2", ".", "2", "0", "2", "4">>

BirthdayTokens == {Birthday1, BadBirthday}

\* The records a caller can hand to add_record: made by Record(name), then
\* at most one add_phone and at most one add_birthday.
NewRecords ==
    {[name |-> n, phones |-> ps, birthday |-> b] :
        n \in Names,
        ps \in {<<>>, <<Phone2>>},
        b \in {None, Birthday1}}

-----------------------------------------------------------------------------
(* The state machine: book is the AddressBook's data, prev is book before  *)
(* the last call, call is the last call and ret is what it raised or       *)
(* returned.                                                               *)

NoCall == [op |-> "", args |-> <<>>]

Init ==
    /\ book = <<>>
    /\ prev = <<>>
    /\ call = NoCall
    /\ ret = [exc |-> NoExc, text |-> ""]

\* The bound of the model: a call that would make a phone list longer than
\* MaxPhones is left out.
Bounded(data) == \A i \in 1..Len(data) : Len(data[i].phones) <= MaxPhones

\* A command typed at the prompt: the handler under input_error.
Command(op, args, r) ==
    /\ Bounded(r.book)
    /\ prev' = book
    /\ call' = [op |-> op, args |-> args]
    /\ ret' = [exc |-> input_error(r).exc, text |-> input_error(r).text]
    /\ book' = input_error(r).book

\* A method of the record that book.find(name) gives, called by a user of
\* the classes.
Method(op, args, i, r) ==
    /\ Len(r.rec.phones) <= MaxPhones
    /\ prev' = book
    /\ call' = [op |-> op, args |-> args]
    /\ ret' = [exc |-> r.exc, text |-> ""]
    /\ book' = [book EXCEPT ![i] = r.rec]


AddContact ==
    \E args \in (Names \X PhoneTokens) \cup {<<NameA>>} :
        Command("add", args, add_contact(args, book))

ChangeContact ==
    \E args \in ({NameA} \X ValidPhones \X NewPhoneTokens)
                    \cup {<<NameA, Phone1>>} :
        Command("change", args, change_contact(args, book))

DeleteContact ==
    \E args \in {<<n>> : n \in Names} \cup {<<>>} :
        Command("delete", args, delete_contact(args, book))

AddBirthday ==
    \E args \in (Names \X BirthdayTokens) \cup {<<NameA>>} :
        Command("add-birthday", args, cmd_add_birthday(args, book))

RecordAddPhone ==
    \E n \in {NameA}, p \in PhoneTokens :
        /\ find(book, n) # 0
        /\ Method("Record.add_phone", <<n, p>>, find(book, n),
                  add_phone(book[find(book, n)], p))

RecordRemovePhone ==
    \E n \in {NameA}, p \in ValidPhones :
        /\ find(book, n) # 0
        /\ Method("Record.remove_phone", <<n, p>>, find(book, n),
                  [exc |-> NoExc,
                   rec |-> remove_phone(book[find(book, n)], Str(p))])

RecordEditPhone ==
    \E n \in {NameA}, old \in ValidPhones, new \in NewPhoneTokens :
        /\ find(book, n) # 0
        /\ Method("Record.edit_phone", <<n, old, new>>, find(book, n),
                  edit_phone(book[find(book, n)], old, new))

AddRecord ==
    \E r \in NewRecords :
        /\ prev' = book
        /\ call' = [op |-> "add_record", args |-> <<r>>]
        /\ ret' = [exc |-> NoExc, text |-> ""]
        /\ book' = add_record(book, r)

Next ==
    \/ AddContact
    \/ ChangeContact
    \/ DeleteContact
    \/ AddBirthday
    \/ RecordAddPhone
    \/ RecordRemovePhone
    \/ RecordEditPhone
    \/ AddRecord

Spec == Init /\ [][Next]_vars

-----------------------------------------------------------------------------
(* Properties of Record and of the commands, under Spec *)

\* The record a method call or a command was about: its place in the book,
\* before and after the call (neither changes the order of the book).
Target == find(prev, call.args[1])

Contains(phones, p) == \E i \in 1..Len(phones) : phones[i] = p

\* Exactly ten characters, each one of 0..9.
TenAsciiDigits(s) == Len(s) = 10 /\ \A i \in 1..Len(s) : IsAsciiDigit(s[i])

\* phones without its first element equal to p.
WithoutFirst(phones, p) ==
    IF Contains(phones, p)
    THEN RemoveAt(phones, CHOOSE i \in 1..Len(phones) :
                      phones[i] = p /\ \A j \in 1..(i - 1) : phones[j] # p)
    ELSE phones

\* A successful Record.edit_phone(old, new) with old in the list, and new
\* another number than old.
EditSucceeded ==
    /\ call.op = "Record.edit_phone"
    /\ call.args[2] # call.args[3]
    /\ Contains(prev[Target].phones, call.args[2])
    /\ TenAsciiDigits(call.args[3])
    /\ ret.exc = NoExc

\* C1: after a successful edit_phone(old, new) the phone list no longer
\* contains old, ends with new, is as long as before, and the other phones
\* keep their order.
C1_EditReplacesOld ==
    EditSucceeded =>
        LET before == prev[Target].phones
            after == book[Target].phones
        IN /\ ~Contains(after, call.args[2])
           /\ after # <<>> /\ after[Len(after)] = call.args[3]
           /\ Len(after) = Len(before)
           /\ SubSeq(after, 1, Len(after) - 1) = WithoutFirst(before, call.args[2])

\* C2: Record.add_phone(p) with p already in the phone list raises and
\* leaves the phone list as it was.
C2_DuplicateRejected ==
    (call.op = "Record.add_phone" /\ Contains(prev[Target].phones, call.args[2]))
        => (ret.exc # NoExc /\ book[Target].phones = prev[Target].phones)

\* Record.edit_phone(old, new), called directly or by the change command,
\* with old in the list and new no valid phone number.
EditWithInvalidNew ==
    /\ call.op \in {"Record.edit_phone", "change"}
    /\ Len(call.args) = 3
    /\ Target # 0
    /\ Contains(prev[Target].phones, call.args[2])
    /\ ~TenAsciiDigits(call.args[3])

\* C3: edit_phone(old, new) with old present and new no valid phone number
\* (not ten digits 0..9) raises the validation error and leaves the phone
\* list (the whole book) as it was.
C3_EditAtomicOnInvalidNew ==
    EditWithInvalidNew => (ret.exc.type = "ValueError" /\ book = prev)

\* add_record with a record whose name is already a key.
Overwrites ==
    call.op = "add_record" /\ find(prev, call.args[1].name) # 0

\* C9: add_record with a name that is already a key replaces the stored
\* record by the new one (its phones and birthday only), keeps the number
\* of entries and leaves every other entry as it was.
C9_AddRecordOverwrites ==
    Overwrites =>
        LET r == call.args[1]
            i == find(prev, r.name)
        IN /\ find(book, r.name) # 0
           /\ book[find(book, r.name)] = r
           /\ Len(book) = Len(prev)
           /\ \A j \in 1..Len(prev) : j # i => book[j] = prev[j]

\* A record with a phone and a birthday overwritten, in a book of two, by a
\* record with another phone and no birthday.
C9_Witness ==
    /\ Overwrites
    /\ Len(prev) = 2
    /\ LET old == prev[find(prev, call.args[1].name)]
       IN /\ old.phones # <<>>
          /\ old.birthday # None
          /\ call.args[1].birthday = None
          /\ call.args[1].phones # <<>>
          /\ ~Contains(old.phones, call.args[1].phones[1])

\* A command that ended in an error: an exception caught by input_error, or
\* the "contact not found" answer.
IsError(r) == r.exc # NoExc \/ r.text = NotFoundText

\* C10: a command (add, change, delete, add-birthday) that ends in an error
\* leaves the address book as it was before the command.
C10_NoPartialMutation ==
    (call.op \in {"add", "change", "delete", "add-birthday"} /\ IsError(ret))
        => book = prev

-----------------------------------------------------------------------------
(* The upcoming birthdays: the book is one that add and add-birthday       *)
(* commands have built, today is the date the call is made on.  The query  *)
(* changes nothing, so one call from each book shows all it can do.        *)

\* The widest window asked for (the birthdays command asks for 7 days).
MaxDays == 8

DefaultDays == 7

Text(d1, d2, m1, m2, y) == <<d1, d2, ".", m1, m2, ".">> \o y

Y1990 == <<"1", "9", "9", "0">>

Y2000 == <<"2", "0", "0", "0">>

\* 03.01.1990, 06.01.1990, 07.01.1990, 13.01.1990, 14.01.1990, 31.12.1990,
\* 28.02.1990, 29.02.2000, 01.03.2000 and, without the leading zeros,
\* 6.1.2000
UpcomingBirthdays ==
    {Text("0", "3", "0", "1", Y1990), Text("0", "6", "0", "1", Y1990),
     Text("0", "7", "0", "1", Y1990), Text("1", "3", "0", "1", Y1990),
     Text("1", "4", "0", "1", Y1990), Text("3", "1", "1", "2", Y1990),
     Text("2", "8", "0", "2", Y1990), Text("2", "9", "0", "2", Y2000),
     Text("0", "1", "0", "3", Y2000), <<"6", ".", "1", ".">> \o Y2000}

\* A and perhaps B, each with one phone; A has a birthday, B may have one.
UpcomingBooks ==
    {<<[name |-> NameA, phones |-> <<Phone1>>, birthday |-> a]>> :
        a \in UpcomingBirthdays}
    \cup
    {<<[name |-> NameA, phones |-> <<Phone1>>, birthday |-> a],
       [name |-> NameB, phones |-> <<Phone2>>, birthday |-> b]>> :
        a \in UpcomingBirthdays,
        b \in {None, Text("0", "6", "0", "1", Y1990),
               Text("2", "9", "0", "2", Y2000)}}

\* The days of December, January, February and March of 2023 and 2024.
Todays ==
    {d \in [year : {2023, 2024}, month : {12, 1, 2, 3}, day : 1..31] :
        IsDate(d.year, d.month, d.day)}

InitUpcoming ==
    /\ book \in UpcomingBooks
    /\ prev = book
    /\ call = NoCall
    /\ ret = [exc |-> NoExc, value |-> <<>>]

\* book.get_upcoming_birthdays(days), called on the date today.
GetUpcomingBirthdays ==
    \E days \in 0..MaxDays, today \in Todays :
        /\ call = NoCall
        /\ call' = [op |-> "get_upcoming_birthdays", args |-> <<>>,
                    days |-> days, today |-> today]
        /\ ret' = get_upcoming_birthdays(book, days, today)
        /\ prev' = book
        /\ UNCHANGED book

\* The birthdays command: get_upcoming_birthdays() under input_error, which
\* catches the ValueError.
Birthdays ==
    \E today \in Todays :
        /\ call = NoCall
        /\ call' = [op |-> "birthdays", args |-> <<>>,
                    days |-> DefaultDays, today |-> today]
        /\ ret' = get_upcoming_birthdays(book, DefaultDays, today)
        /\ prev' = book
        /\ UNCHANGED book

NextUpcoming == GetUpcomingBirthdays \/ Birthdays

SpecUpcoming == InitUpcoming /\ [][NextUpcoming]_vars

-----------------------------------------------------------------------------
(* Properties of the upcoming birthdays, under SpecUpcoming *)

Queried == call.op \in {"get_upcoming_birthdays", "birthdays"}

WithBirthday == {i \in 1..Len(book) : book[i].birthday # None}

\* The month and day of record i's birthday.
BirthdayOf(i) == strptime(book[i].birthday).date

IsFeb29(i) == BirthdayOf(i).month = 2 /\ BirthdayOf(i).day = 29

\* The next occurrence of a month and day on or after today: the earliest
\* calendar date with that month and day that is not before today.
NextOccurrence(b, today) ==
    LET years == {y \in today.year..(today.year + 8) :
                     /\ IsDate(y, b.month, b.day)
                     /\ toordinal([year |-> y, month |-> b.month, day |-> b.day])
                            >= toordinal(today)}
    IN [year |-> CHOOSE y \in years : \A z \in years : y <= z,
        month |-> b.month, day |-> b.day]

\* How far a date is moved to leave the weekend: Saturday 2, Sunday 1.
WeekendShift(d) == IF weekday(d) = 5 THEN 2 ELSE IF weekday(d) = 6 THEN 1 ELSE 0

\* Record i is in the list returned.
Included(i) ==
    /\ ret.exc = NoExc
    /\ \E k \in 1..Len(ret.value) : ret.value[k].name = book[i].name

\* The year the birthday of record i is moved to is no leap year although
\* the birthday is 29 February: today's year when that is no leap year, the
\* next year when today is after 29 February of a leap year.
Feb29InCommonYear(i) ==
    /\ IsFeb29(i)
    /\ \/ ~IsLeap(call.today.year)
       \/ toordinal(call.today) >
              toordinal([year |-> call.today.year, month |-> 2, day |-> 29])

\* Days from today to the next occurrence of record i's birthday, before
\* and after it is moved off the weekend.
DaysToOccurrence(i) ==
    toordinal(NextOccurrence(BirthdayOf(i), call.today)) - toordinal(call.today)

DaysToShifted(i) ==
    DaysToOccurrence(i) + WeekendShift(NextOccurrence(BirthdayOf(i), call.today))

C5_ReportedDateShifted ==
    (Queried /\ ret.exc = NoExc) =>
        \A k \in 1..Len(ret.value) :
            LET i == find(book, ret.value[k].name)
                next == NextOccurrence(BirthdayOf(i), call.today)
                reported == strptime(ret.value[k].birthday)
            IN /\ reported.exc = NoExc
               /\ Len(ret.value[k].birthday) = 10
               /\ toordinal(reported.date) = toordinal(next) + WeekendShift(next)
               /\ weekday(reported.date) < 5

\* Entries are returned for a Saturday and for a Sunday birthday, one of
\* them moved into the next month.
C5_Witness ==
    /\ Queried /\ ret.exc = NoExc
    /\ Len(ret.value) = 2
    /\ \E k \in 1..2 :
          weekday(NextOccurrence(BirthdayOf(find(book, ret.value[k].name)),
                                 call.today)) = 5
    /\ \E k \in 1..2 :
          LET next == NextOccurrence(BirthdayOf(find(book, ret.value[k].name)),
                                     call.today)
          IN weekday(next) = 6
             /\ strptime(ret.value[k].birthday).date.month # next.month

\* C6: with a 29 February birthday in the book and a target year that is
\* no leap year, the call still completes without an error, and the
\* records whose birthdays are in the window are still returned.
C6_Feb29Completes ==
    (Queried /\ \E i \in WithBirthday : Feb29InCommonYear(i)) =>
        /\ ret.exc = NoExc
        /\ \A i \in WithBirthday :
              (~IsFeb29(i) /\ 0 <= DaysToOccurrence(i)
                           /\ DaysToShifted(i) <= call.days) => Included(i)

-----------------------------------------------------------------------------
(* Phone(S) for the strings S of up to MaxLen characters that are all "5"  *)
(* but for at most two places.                                             *)

MaxLen == 11

\* Digits, a letter, a sign, a blank, SUPERSCRIPT TWO, ARABIC-INDIC DIGIT
\* TWO and FULLWIDTH DIGIT ONE.
PhoneChars == {"0", "5", "9", "a", "+", " ", "U+00B2", "U+0662", "U+FF11"}

PhoneInputs ==
    {[i \in 1..n |-> IF i = x[1] THEN x[2] ELSE IF i = x[3] THEN x[4] ELSE "5"] :
        n \in 0..MaxLen,
        x \in (1..MaxLen) \X PhoneChars \X (1..MaxLen) \X PhoneChars}

InitValue ==
    /\ book = <<>>
    /\ prev = <<>>
    /\ call = NoCall
    /\ ret = [exc |-> NoExc, value |-> None]

\* Phone(S)
NewPhone ==
    \E S \in PhoneInputs :
        /\ call = NoCall
        /\ call' = [op |-> "Phone", args |-> <<S>>]
        /\ ret' = Phone_init(S)
        /\ UNCHANGED <<book, prev>>

SpecPhone == InitValue /\ [][NewPhone]_vars

\* C7: Phone(S) succeeds iff S is exactly ten characters, each one of
\* 0..9, and then stores S.
C7_PhoneIffTenAsciiDigits ==
    call.op = "Phone" =>
        /\ ret.exc = NoExc <=> TenAsciiDigits(call.args[1])
        /\ ret.exc = NoExc => ret.value = call.args[1]

-----------------------------------------------------------------------------
(* Birthday(S) for the strings S made of a day, a separator, a month, a    *)
(* separator, a year and perhaps a trailing blank.                         *)

DayTokens ==
    {<<"1">>, <<"0", "1">>, <<"0", "3">>, <<"2", "8">>, <<"2", "9">>,
     <<"3", "0">>, <<"3", "1">>, <<"3", "2">>, <<"0", "0">>, <<"0">>,
     <<" ", "1">>, <<"0", "0", "1">>, <<"1", "U+0662">>, <<"U+FF11">>, <<>>}

MonthTokens ==
    {<<"1">>, <<"0", "1">>, <<"2">>, <<"0", "2">>, <<"0", "4">>,
     <<"1", "2">>, <<"1", "3">>, <<"0", "0">>, <<"U+FF11">>}

YearTokens ==
    {<<"2", "0", "2", "4">>, <<"2", "0", "2", "3">>, <<"1", "9", "0", "0">>,
     <<"2", "0", "0", "0">>, <<"0", "0", "0", "0">>, <<"0", "0", "0", "1">>,
     <<"2", "4">>, <<"2", "0", "2", "4", "0">>, <<"2", "U+0662", "2", "4">>}

Separators == {<<".">>, <<"-">>}

BirthdayInputs ==
    {d \o s1 \o m \o s2 \o y \o t :
        d \in DayTokens, s1 \in Separators, m \in MonthTokens,
        s2 \in Separators, y \in YearTokens, t \in {<<>>, <<" ">>}}

\* Birthday(S)
NewBirthday ==
    \E S \in BirthdayInputs :
        /\ call = NoCall
        /\ call' = [op |-> "Birthday", args |-> <<S>>]
        /\ ret' = Birthday_init(S)
        /\ UNCHANGED <<book, prev>>

SpecBirthday == InitValue /\ [][NewBirthday]_vars

\* DD.MM.YYYY: two digits, a dot, two digits, a dot, four digits, all of
\* 0..9, that name a calendar date.
IsPaddedDate(s) ==
    /\ Len(s) = 10
    /\ s[3] = "." /\ s[6] = "."
    /\ \A i \in {1, 2, 4, 5, 7, 8, 9, 10} : IsAsciiDigit(s[i])
    /\ IsDate(int(SubSeq(s, 7, 10)), int(SubSeq(s, 4, 5)), int(SubSeq(s, 1, 2)))

\* C8: Birthday(S) succeeds iff S is DD.MM.YYYY with a zero-padded day and
\* month and a four-digit year that name a calendar date, and then the
\* stored birthday formatted as DD.MM.YYYY is S again.
C8_BirthdayIffPaddedDate ==
    call.op = "Birthday" =>
        /\ ret.exc = NoExc <=> IsPaddedDate(call.args[1])
        /\ ret.exc = NoExc => strftime(strptime(ret.value).date) = call.args[1]

====
